---- MODULE Spec2Model ----
(***************************************************************************)
(* A model of pdf_to_word (src/pdf_to_word/converter.py, cli.py): the      *)
(* conversion driver convert_pdf_to_docx, the two page processors, the     *)
(* element writers and the rectangle helpers.                              *)
(*                                                                         *)
(* Lengths.  PyMuPDF reports every coordinate as a float number of points. *)
(* The model keeps a length as an integer number of units, PtDen units to  *)
(* the point, with PtDen = UnitsPerEmu * 12700, so one unit is a fraction  *)
(* of an EMU and a length may be positive and still convert to 0 EMU.      *)
(* Arithmetic on                                                           *)
(* lengths is exact (rational); the code's is IEEE double.                 *)
(***************************************************************************)
EXTENDS Integers, Sequences, FiniteSets, TLC

\* ------------------------------------------------------------------ units

_PT_TO_EMU == 12700

\* Model units per EMU: the resolution of the model's lengths.
UnitsPerEmu == 2

\* Model units per point.
PtDen == UnitsPerEmu * _PT_TO_EMU

\* n points, in model units.
Pt(n) == n * PtDen

\* Python's int(): truncation toward zero of num / den, den > 0.
TruncDiv(num, den) ==
    IF num < 0 THEN 0 - ((0 - num) \div den) ELSE num \div den

\* int(pt * _PT_TO_EMU), for pt a length in model units: the point value is
\* pt / PtDen, so the product is pt / UnitsPerEmu.
_pt2emu(pt) == TruncDiv(pt, PtDen \div _PT_TO_EMU)

Max2(a, b) == IF a >= b THEN a ELSE b
Min2(a, b) == IF a <= b THEN a ELSE b

\* ------------------------------------------------------------- fitz.Rect

Rect(x0, y0, x1, y1) == [x0 |-> x0, y0 |-> y0, x1 |-> x1, y1 |-> y1]

\* fitz.Rect.width / .height: never negative.
RectWidth(r)  == Max2(r.x1 - r.x0, 0)
RectHeight(r) == Max2(r.y1 - r.y0, 0)

\* fitz.Rect.is_empty
RectIsEmpty(r) == r.x0 >= r.x1 \/ r.y0 >= r.y1

\* r & s
RectAnd(r, s) ==
    Rect(Max2(r.x0, s.x0), Max2(r.y0, s.y0), Min2(r.x1, s.x1), Min2(r.y1, s.y1))

\* Variant: the union keeps its left operand.
RectOr_KeepsLeft(r, s) == r

\* r | s, for two non-empty rectangles: the bounding union.
RectOr(r, s) ==
    Rect(Min2(r.x0, s.x0), Min2(r.y0, s.y0), Max2(r.x1, s.x1), Max2(r.y1, s.y1))

\* r.intersects(s): the intersection has positive area; rectangles that only
\* touch along an edge do not intersect.
RectIntersects(r, s) ==
    /\ ~RectIsEmpty(r)
    /\ ~RectIsEmpty(s)
    /\ ~RectIsEmpty(RectAnd(r, s))

\* r.contains(s)
RectContains(r, s) ==
    /\ r.x0 <= s.x0 /\ s.x0 <= s.x1 /\ s.x1 <= r.x1
    /\ r.y0 <= s.y0 /\ s.y0 <= s.y1 /\ s.y1 <= r.y1

\* bool(rect): false only for the all-zero rectangle.
RectTruthy(r) == ~(r.x0 = 0 /\ r.y0 = 0 /\ r.x1 = 0 /\ r.y1 = 0)

\* p/q > r/s for non-negative p, r and positive q, s, without forming p*s or
\* q*r (areas in model units do not fit 32 bits): compare the integer parts,
\* then the reciprocals of the fractional parts.
RECURSIVE RatGT(_, _, _, _)
RatGT(p, q, r, s) ==
    IF p \div q # r \div s THEN p \div q > r \div s
    ELSE IF p % q = 0 THEN FALSE
    ELSE IF r % s = 0 THEN TRUE
    ELSE RatGT(s, r % s, q, p % q)

\* a.width * a.height > b.width * b.height * 0.5
AreaMoreThanHalf(a, b) ==
    IF RectWidth(b) = 0 \/ RectHeight(b) = 0
    THEN RectWidth(a) > 0 /\ RectHeight(a) > 0
    ELSE IF RectHeight(a) = 0 THEN FALSE
    ELSE RatGT(2 * RectWidth(a), RectWidth(b), RectHeight(b), RectHeight(a))

\* ---------------------------------------------------------- _merge_rects

MergeMarginDefault == 5
FigureMergeMargin == 10

ExpandRect(r, margin) ==
    Rect(r.x0 - margin, r.y0 - margin, r.x1 + margin, r.y1 + margin)

\* The inner "for j, other in enumerate(rects)" of one pass of the while loop.
RECURSIVE MergeScan(_, _, _, _, _)
MergeScan(rects, margin, i, j, st) ==
    IF j > Len(rects) THEN st
    ELSE IF st.used[j] \/ i = j THEN MergeScan(rects, margin, i, j + 1, st)
    ELSE LET other_exp == ExpandRect(rects[j], margin)
         IN  IF RectIntersects(st.current, other_exp)
             THEN MergeScan(rects, margin, i, j + 1,
                            [current |-> RectOr(st.current, other_exp),
                             used    |-> [st.used EXCEPT ![j] = TRUE],
                             changed |-> TRUE])
             ELSE MergeScan(rects, margin, i, j + 1, st)

\* "while changed": passes until one changes nothing.
RECURSIVE MergeGrow(_, _, _, _)
MergeGrow(rects, margin, i, st) ==
    LET r == MergeScan(rects, margin, i, 1, [st EXCEPT !.changed = FALSE])
    IN  IF r.changed THEN MergeGrow(rects, margin, i, r) ELSE r

\* The outer "for i, rect in enumerate(rects)".
RECURSIVE MergeOuter(_, _, _, _, _)
MergeOuter(rects, margin, i, used, merged) ==
    IF i > Len(rects) THEN merged
    ELSE IF used[i] THEN MergeOuter(rects, margin, i + 1, used, merged)
    ELSE LET g == MergeGrow(rects, margin, i,
                            [current |-> ExpandRect(rects[i], margin),
                             used    |-> used,
                             changed |-> TRUE])
         IN  MergeOuter(rects, margin, i + 1,
                        [g.used EXCEPT ![i] = TRUE],
                        Append(merged, g.current))

_merge_rects(rects, margin) ==
    IF rects = <<>> THEN <<>>
    ELSE MergeOuter(rects, margin, 1, [k \in 1..Len(rects) |-> FALSE], <<>>)

\* ----------------------------------------------------- shape id counter

\* Variant: the increment is lost.
_next_shape_id_NoIncrement(counter) == counter

\* _SHAPE_ID_COUNTER += 1; return _SHAPE_ID_COUNTER.  The operator gives the
\* value returned, which is also the new value of the counter.
_next_shape_id(counter) == counter + 1

\* ------------------------------------------------------- element writers
\* An anchor paragraph is the sequence of the floating elements appended to
\* it.  An element keeps its kind, its docPr id, its extent in EMU and its
\* relativeHeight; the style payload (colours, font) is left out.

TextZBase  == 251700000
\* Variant: the image band lies above the text band.
ImageZBase_AboveText == TextZBase + 50000
ImageZBase == 251650000
ShapeZBase == 251600000
MinStrokeEmu == 6350

\* Image bytes: whether add_picture can read them, and the resolution
\* get_pixmap rendered them at (0 for bytes extract_image took from the PDF).
ExtractedBytes(loadable) == [loadable |-> loadable, rendered_dpi |-> 0]

\* page.get_pixmap(matrix=fitz.Matrix(zoom, zoom)).tobytes("png"), with
\* zoom = zoom_dpi / 72.
PixmapBytes(zoom_dpi) == [loadable |-> TRUE, rendered_dpi |-> zoom_dpi]

\* _add_floating_image.  img_bytes.loadable = FALSE is add_picture raising on
\* bytes it cannot read: the temporary run is removed and nothing is appended.
\* add_picture accepts any width and height it is given, 0 included.
_add_floating_image(para, img_bytes, x_emu, y_emu, w_emu, h_emu, shape_id) ==
    IF ~img_bytes.loadable THEN para
    ELSE Append(para, [kind |-> "image", sid |-> shape_id,
                       x |-> x_emu, y |-> y_emu, w |-> w_emu, h |-> h_emu,
                       z |-> ImageZBase + shape_id, nchars |-> 0,
                       rendered_dpi |-> img_bytes.rendered_dpi])

\* The characters XML 1.0 forbids; html.escape leaves them in place and
\* parse_xml raises XMLSyntaxError on them.
XmlForbidden == {"\\x01"}

XmlSerializable(text) == \A k \in 1..Len(text) : text[k] \notin XmlForbidden

\* Variant: the run is inserted at the head of the paragraph.
_add_textbox_AtHead(para, text, x_emu, y_emu, w_emu, h_emu, shape_id) ==
    <<[kind |-> "textbox", sid |-> shape_id,
       x |-> x_emu, y |-> y_emu, w |-> w_emu, h |-> h_emu,
       z |-> TextZBase + shape_id, nchars |-> Len(text)]>> \o para

\* _add_textbox, when parse_xml accepts the markup.
_add_textbox(para, text, x_emu, y_emu, w_emu, h_emu, shape_id) ==
    Append(para, [kind |-> "textbox", sid |-> shape_id,
                  x |-> x_emu, y |-> y_emu, w |-> w_emu, h |-> h_emu,
                  z |-> TextZBase + shape_id, nchars |-> Len(text)])

_add_rect_shape(para, x_emu, y_emu, w_emu, h_emu, shape_id) ==
    IF w_emu <= 0 \/ h_emu <= 0 THEN para
    ELSE Append(para, [kind |-> "rect", sid |-> shape_id,
                       x |-> x_emu, y |-> y_emu, w |-> w_emu, h |-> h_emu,
                       z |-> ShapeZBase + shape_id, nchars |-> 0])

Abs(a) == IF a < 0 THEN 0 - a ELSE a

_add_line_shape(para, x0_emu, y0_emu, x1_emu, y1_emu, shape_id, width_emu) ==
    LET bw == IF Abs(x1_emu - x0_emu) # 0 THEN Abs(x1_emu - x0_emu) ELSE width_emu
        bh == IF Abs(y1_emu - y0_emu) # 0 THEN Abs(y1_emu - y0_emu) ELSE width_emu
    IN  Append(para, [kind |-> "line", sid |-> shape_id,
                      x |-> Min2(x0_emu, x1_emu), y |-> Min2(y0_emu, y1_emu),
                      w |-> bw, h |-> bh,
                      z |-> ShapeZBase + shape_id, nchars |-> 0])

\* ------------------------------------------------- text width estimation
\* A text and a font name are sequences of one-character strings.  Width
\* factors are kept in hundredths, so an estimate is 100 times a length.

_CHAR_WIDTHS ==
    "i" :> 28 @@ "l" :> 28 @@ "I" :> 28 @@ "1" :> 50 @@ "." :> 28 @@ "," :> 28
    @@ ":" :> 28 @@ ";" :> 28 @@ "!" :> 33 @@ "'" :> 19 @@ "\"" :> 41 @@ "|" :> 28
    @@ "j" :> 28 @@ "f" :> 33 @@ "t" :> 33 @@ "r" :> 39 @@ " " :> 28 @@ "m" :> 89
    @@ "w" :> 78 @@ "M" :> 89 @@ "W" :> 100 @@ "@" :> 92 @@ "%" :> 89 @@ "A" :> 67
    @@ "B" :> 67 @@ "C" :> 72 @@ "D" :> 72 @@ "E" :> 67 @@ "F" :> 61 @@ "G" :> 78
    @@ "H" :> 72 @@ "J" :> 50 @@ "K" :> 67 @@ "L" :> 56 @@ "N" :> 72 @@ "O" :> 78
    @@ "P" :> 67 @@ "Q" :> 78 @@ "R" :> 72 @@ "S" :> 67 @@ "T" :> 61 @@ "U" :> 72
    @@ "V" :> 67 @@ "X" :> 67 @@ "Y" :> 67 @@ "Z" :> 61

_DEFAULT_CHAR_WIDTH == 56
MonoCharWidth == 60

CharWidth(c) ==
    IF c \in DOMAIN _CHAR_WIDTHS THEN _CHAR_WIDTHS[c] ELSE _DEFAULT_CHAR_WIDTH

RECURSIVE SumCharWidths(_)
SumCharWidths(text) ==
    IF text = <<>> THEN 0 ELSE CharWidth(Head(text)) + SumCharWidths(Tail(text))

UpperLetters ==
    <<"A", "B", "C", "D", "E", "F", "G", "H", "I", "J", "K", "L", "M",
      "N", "O", "P", "Q", "R", "S", "T", "U", "V", "W", "X", "Y", "Z">>
LowerLetters ==
    <<"a", "b", "c", "d", "e", "f", "g", "h", "i", "j", "k", "l", "m",
      "n", "o", "p", "q", "r", "s", "t", "u", "v", "w", "x", "y", "z">>

\* str.lower(), one character.
LowerChar(c) ==
    IF \E k \in 1..Len(UpperLetters) : UpperLetters[k] = c
    THEN LowerLetters[CHOOSE k \in 1..Len(UpperLetters) : UpperLetters[k] = c]
    ELSE c

LowerStr(s) == [k \in 1..Len(s) |-> LowerChar(s[k])]

\* kw in s
Contains(s, kw) ==
    \E off \in 0..(Len(s) - Len(kw)) : \A k \in 1..Len(kw) : s[off + k] = kw[k]

mono_keywords ==
    { <<"m", "o", "n", "o">>, <<"c", "o", "u", "r", "i", "e", "r">>,
      <<"c", "o", "n", "s", "o", "l", "a", "s">>, <<"m", "e", "n", "l", "o">>,
      <<"f", "i", "x", "e", "d">>, <<"c", "o", "d", "e">> }

\* 100 * _estimate_text_width(text, font_size, font_name)
_estimate_text_width(text, font_size, font_name) ==
    IF text = <<>> THEN 0
    ELSE IF \E kw \in mono_keywords : Contains(LowerStr(font_name), kw)
    THEN Len(text) * font_size * MonoCharWidth
    ELSE SumCharWidths(text) * font_size

\* ------------------------------------------- _process_page_editable
\* A page, as PyMuPDF reports it:
\*   rect       the page rectangle
\*   images     get_images: [xref, rects (get_image_rects), extract_ok
\*              (extract_image returns bytes), loadable (add_picture reads
\*              them)]
\*   drawings   get_drawings: [items, rect, fill, width]; an item is
\*              [kind, r] for "re", [kind, p1, p2] for "l", [kind] otherwise
\*   blocks     get_text("dict"): [type, bbox, lines]; a line is a sequence
\*              of spans [text, bbox, font, size]
\*   xobjects   get_xobjects, each with its get_image_rects
\*   char_count the number of characters the provider reports for the page
\* The processing threads st = [para, counter, image_rects]: the anchor
\* paragraph, _SHAPE_ID_COUNTER and the image_rects list.

RECURSIVE Flatten(_)
Flatten(seqs) == IF seqs = <<>> THEN <<>> ELSE Head(seqs) \o Flatten(Tail(seqs))

\* "for img_rect in img_rects_list" for one image.
RECURSIVE PlaceImageRects(_, _, _)
PlaceImageRects(img, k, st) ==
    IF k > Len(img.rects) THEN st
    ELSE LET img_rect == img.rects[k]
             sid == _next_shape_id(st.counter)
         IN  IF RectWidth(img_rect) <= 0 \/ RectHeight(img_rect) <= 0
             THEN PlaceImageRects(img, k + 1, st)
             ELSE PlaceImageRects(img, k + 1,
                    [para |-> _add_floating_image(st.para, ExtractedBytes(img.loadable),
                                  _pt2emu(img_rect.x0), _pt2emu(img_rect.y0),
                                  _pt2emu(RectWidth(img_rect)),
                                  _pt2emu(RectHeight(img_rect)), sid),
                     counter |-> sid,
                     image_rects |-> Append(st.image_rects, img_rect)])

\* Step 1, method 1: "for img_info in image_list".  An image with no
\* placement, or whose extraction fails or raises, is passed over.
RECURSIVE PlaceImages(_, _, _, _)
PlaceImages(image_list, k, processed_xrefs, st) ==
    IF k > Len(image_list) THEN st
    ELSE LET img == image_list[k]
         IN  IF img.xref \in processed_xrefs
             THEN PlaceImages(image_list, k + 1, processed_xrefs, st)
             ELSE PlaceImages(image_list, k + 1, processed_xrefs \cup {img.xref},
                    IF img.rects = <<>> \/ ~img.extract_ok THEN st
                    ELSE PlaceImageRects(img, 1, st))

\* _detect_figure_regions: the rectangles of "re" items.
ItemRects(drawings) ==
    LET items == Flatten([k \in 1..Len(drawings) |-> drawings[k].items])
        res   == SelectSeq(items, LAMBDA it : it.kind = "re")
    IN  [k \in 1..Len(res) |-> res[k].r]

TextRects(blocks) ==
    LET tb == SelectSeq(blocks, LAMBDA b : b.type = 0)
    IN  [k \in 1..Len(tb) |-> tb[k].bbox]

OverlapsExisting(rect, already_extracted) ==
    \E k \in 1..Len(already_extracted) :
        /\ RectIntersects(rect, already_extracted[k])
        /\ AreaMoreThanHalf(RectAnd(rect, already_extracted[k]), rect)

TextInRegion(rect, text_rects) ==
    Cardinality({k \in 1..Len(text_rects) : RectContains(rect, text_rects[k])})

InnerRect(rect) == Rect(rect.x0 + Pt(2), rect.y0 + Pt(2), rect.x1 - Pt(2), rect.y1 - Pt(2))

\* "for rect in draw_rects": the frames kept as figure regions.
RECURSIVE FrameFigures(_, _, _)
FrameFigures(draw_rects, already_extracted, text_rects) ==
    IF draw_rects = <<>> THEN <<>>
    ELSE LET rect == Head(draw_rects)
             rest == FrameFigures(Tail(draw_rects), already_extracted, text_rects)
             keep == /\ ~(RectWidth(rect) < Pt(100) \/ RectHeight(rect) < Pt(100))
                     /\ ~OverlapsExisting(rect, already_extracted)
                     /\ TextInRegion(rect, text_rects) <= 3
                     /\ RectWidth(InnerRect(rect)) > Pt(50)
                     /\ RectHeight(InnerRect(rect)) > Pt(50)
         IN  IF keep THEN <<InnerRect(rect)>> \o rest ELSE rest

\* "for xobj in xobjects: for xobj_rect in xobj_rects".
RECURSIVE XObjectFigures(_, _, _)
XObjectFigures(xobj_rects, already_extracted, figure_regions) ==
    IF xobj_rects = <<>> THEN figure_regions
    ELSE LET xr == Head(xobj_rects)
             existing == already_extracted \o figure_regions
             is_covered == \E k \in 1..Len(existing) :
                              RectContains(existing[k], xr) \/ RectContains(xr, existing[k])
         IN  XObjectFigures(Tail(xobj_rects), already_extracted,
                IF RectWidth(xr) > Pt(50) /\ RectHeight(xr) > Pt(50) /\ ~is_covered
                THEN Append(figure_regions, xr) ELSE figure_regions)

_detect_figure_regions(page, already_extracted) ==
    LET all_rects  == ItemRects(page.drawings)
        draw_rects == SelectSeq(all_rects,
                        LAMBDA r : RectWidth(r) > Pt(50) /\ RectHeight(r) > Pt(50))
        frames     == FrameFigures(draw_rects, already_extracted, TextRects(page.blocks))
    IN  _merge_rects(XObjectFigures(Flatten(page.xobjects), already_extracted, frames),
                     Pt(FigureMergeMargin))

FigureDpiCap == 250
ComplexDpiCap == 200

\* zoom = min(dpi, 250) / 72.0, as the resolution it stands for.
FigureZoomDpi(dpi) == Min2(dpi, FigureDpiCap)

\* Variant: the complex regions are rendered at the dpi asked for.
ComplexZoomDpi_Uncapped(dpi) == dpi

\* zoom = min(dpi, 200) / 72.0
ComplexZoomDpi(dpi) == Min2(dpi, ComplexDpiCap)

\* zoom = dpi / 72.0
ExactZoomDpi(dpi) == dpi

\* "for fig_rect in figure_regions" and "for region in merged_complex": a
\* rendered region is a PNG add_picture reads.
RECURSIVE RasterizeRegions(_, _, _, _)
RasterizeRegions(regions, zoom_dpi, record, st) ==
    IF regions = <<>> THEN st
    ELSE LET region == Head(regions)
             sid == _next_shape_id(st.counter)
         IN  RasterizeRegions(Tail(regions), zoom_dpi, record,
                [para |-> _add_floating_image(st.para, PixmapBytes(zoom_dpi),
                              _pt2emu(region.x0), _pt2emu(region.y0),
                              _pt2emu(RectWidth(region)), _pt2emu(RectHeight(region)), sid),
                 counter |-> sid,
                 image_rects |-> IF record THEN Append(st.image_rects, region)
                                 ELSE st.image_rects])

\* Step 2: one drawing's items, "for item in items".
RECURSIVE PlaceItems(_, _, _)
PlaceItems(items, stroke_width_emu, st) ==
    IF items = <<>> THEN st
    ELSE LET item == Head(items)
             sid == _next_shape_id(st.counter)
         IN  IF item.kind = "re"
             THEN PlaceItems(Tail(items), stroke_width_emu,
                    [st EXCEPT !.para = _add_rect_shape(st.para,
                                   _pt2emu(item.r.x0), _pt2emu(item.r.y0),
                                   _pt2emu(RectWidth(item.r)),
                                   _pt2emu(RectHeight(item.r)), sid),
                               !.counter = sid])
             ELSE IF item.kind = "l"
             THEN PlaceItems(Tail(items), stroke_width_emu,
                    [st EXCEPT !.para = _add_line_shape(st.para,
                                   _pt2emu(item.p1.x), _pt2emu(item.p1.y),
                                   _pt2emu(item.p2.x), _pt2emu(item.p2.y),
                                   sid, stroke_width_emu),
                               !.counter = sid])
             ELSE PlaceItems(Tail(items), stroke_width_emu, st)

CurveKinds == {"c", "qu", "curve"}

has_curves(items) == \E k \in 1..Len(items) : items[k].kind \in CurveKinds

\* A drawing goes to rasterization when it has a curve and a truthy rect.
IsComplexDrawing(drawing) == has_curves(drawing.items) /\ RectTruthy(drawing.rect)

\* drawing.get("width", 1) or 1
StrokeWidth(drawing) == IF drawing.width = 0 THEN Pt(1) ELSE drawing.width

\* Step 2: "for drawing in drawings"; gives [st, complex_regions].
RECURSIVE PlaceDrawings(_, _, _)
PlaceDrawings(drawings, complex_regions, st) ==
    IF drawings = <<>> THEN [st |-> st, complex_regions |-> complex_regions]
    ELSE LET drawing == Head(drawings)
         IN  IF IsComplexDrawing(drawing)
             THEN PlaceDrawings(Tail(drawings), Append(complex_regions, drawing.rect), st)
             ELSE PlaceDrawings(Tail(drawings), complex_regions,
                    PlaceItems(drawing.items,
                               Max2(_pt2emu(StrokeWidth(drawing)), MinStrokeEmu), st))

\* merged_complex, less the regions under 5 pt that the loop passes over.
ComplexToRasterize(complex_regions) ==
    LET merged_complex == IF complex_regions # <<>>
                          THEN _merge_rects(complex_regions, Pt(MergeMarginDefault))
                          ELSE <<>>
    IN  SelectSeq(merged_complex,
                  LAMBDA region : ~(RectWidth(region) < Pt(5) \/ RectHeight(region) < Pt(5)))

\* _group_spans_by_line, flattened to the order the spans are visited in:
\* the text blocks' lines, each less its spans of empty text.
_group_spans_by_line(blocks) ==
    LET tb == SelectSeq(blocks, LAMBDA b : b.type = 0)
        lines == Flatten([k \in 1..Len(tb) |-> tb[k].lines])
    IN  Flatten([k \in 1..Len(lines) |->
                    SelectSeq(lines[k], LAMBDA span : span.text # <<>>)])

Whitespace == {" ", "\\t", "\\n"}

\* not text.strip()
IsBlank(text) == \A k \in 1..Len(text) : text[k] \in Whitespace

\* clean_font: the part after the first "+", when there is one.
RECURSIVE AfterFirstPlus(_)
AfterFirstPlus(font) ==
    IF font = <<>> THEN <<>>
    ELSE IF Head(font) = "+" THEN Tail(font)
    ELSE AfterFirstPlus(Tail(font))

\* Variant: the name is used as the provider gives it.
CleanFont_Unchanged(font) == font

CleanFont(font) ==
    IF \E k \in 1..Len(font) : font[k] = "+" THEN AfterFirstPlus(font) ELSE font

\* Variant: the box is as wide as the estimate, padded.
BoxWidthEmu_EstimateOnly(span) ==
    TruncDiv(_estimate_text_width(span.text, span.size, CleanFont(span.font)) * 11,
             1000 * (PtDen \div _PT_TO_EMU))

\* box_w = _pt2emu(max(pdf_width, estimated_width) * 1.1), with the estimate
\* in hundredths of a unit.
BoxWidthEmu(span) ==
    LET pdf_width == span.bbox.x1 - span.bbox.x0
        est100 == _estimate_text_width(span.text, span.size, CleanFont(span.font))
    IN  TruncDiv(Max2(100 * pdf_width, est100) * 11, 1000 * (PtDen \div _PT_TO_EMU))

\* box_h = _pt2emu(max(bbox[3] - bbox[1], size * 1.4))
BoxHeightEmu(span) ==
    TruncDiv(Max2(10 * (span.bbox.y1 - span.bbox.y0), 14 * span.size),
             10 * (PtDen \div _PT_TO_EMU))

\* a & b, for non-negative integers.
RECURSIVE BitAnd(_, _)
BitAnd(a, b) ==
    IF a = 0 \/ b = 0 THEN 0
    ELSE (a % 2) * (b % 2) + 2 * BitAnd(a \div 2, b \div 2)

\* Variant: bold is read from bit 3.
is_bold_Bit3(flags) == BitAnd(flags, 8) # 0

\* bool(flags & (1 << 4))
is_bold(flags) == BitAnd(flags, 16) # 0

\* bool(flags & (1 << 1))
is_italic(flags) == BitAnd(flags, 2) # 0

\* bool(flags & 1)
is_superscript(flags) == BitAnd(flags, 1) # 0

\* What step 3 computes for one span that is not blank, before _add_textbox.
SpanStyle(span) ==
    [is_bold |-> is_bold(span.flags),
     is_italic |-> is_italic(span.flags),
     is_superscript |-> is_superscript(span.flags),
     clean_font |-> CleanFont(span.font),
     box_w |-> BoxWidthEmu(span),
     box_h |-> BoxHeightEmu(span)]

\* Step 3: "for span in spans", to the end or to the first span parse_xml
\* rejects; gives [raised, st].  The shape id is taken before _add_textbox
\* is entered.
RECURSIVE PlaceSpans(_, _)
PlaceSpans(spans, st) ==
    IF spans = <<>> THEN [raised |-> FALSE, st |-> st]
    ELSE LET span == Head(spans)
             sid == _next_shape_id(st.counter)
         IN  IF IsBlank(span.text) THEN PlaceSpans(Tail(spans), st)
             ELSE IF ~XmlSerializable(span.text)
             THEN [raised |-> TRUE, st |-> [st EXCEPT !.counter = sid]]
             ELSE PlaceSpans(Tail(spans),
                    [st EXCEPT !.para = _add_textbox(st.para, span.text,
                                   _pt2emu(span.bbox.x0), _pt2emu(span.bbox.y0),
                                   BoxWidthEmu(span), BoxHeightEmu(span), sid),
                               !.counter = sid])

\* ------------------------------------------------------- section set-up
\* Document() has one section and no paragraph.  A section keeps its page
\* size and orientation (the margins are all set to 0).

NewDocument == [sections |-> <<[page_width |-> 0, page_height |-> 0, landscape |-> FALSE]>>,
                paras |-> <<>>]

SectionFor(rect) ==
    LET w_emu == _pt2emu(RectWidth(rect))
        h_emu == _pt2emu(RectHeight(rect))
        landscape == RectWidth(rect) > RectHeight(rect)
    IN  [page_width  |-> IF landscape THEN Max2(w_emu, h_emu) ELSE w_emu,
         page_height |-> IF landscape THEN Min2(w_emu, h_emu) ELSE h_emu,
         landscape   |-> landscape]

\* Variant: add_section() for the first page too.
SetupSection_AlwaysAdds(doc, rect, is_first) ==
    [sections |-> Append(doc.sections, SectionFor(rect)),
     paras |-> Append(doc.paras, <<>>)]

\* "if is_first: section = word_doc.sections[0] else: add_section()", the
\* section's page set-up, and the empty anchor paragraph.
SetupSection(doc, rect, is_first) ==
    [sections |-> IF is_first
                  THEN [doc.sections EXCEPT ![1] = SectionFor(rect)]
                  ELSE Append(doc.sections, SectionFor(rect)),
     paras |-> Append(doc.paras, <<>>)]

\* ----------------------------------------------------- _process_page_exact

\* The whole page rendered and placed at the origin; gives [doc, counter].
_process_page_exact(doc, rect, is_first, dpi, counter) ==
    LET d == SetupSection(doc, rect, is_first)
        sid == _next_shape_id(counter)
    IN  [doc |-> [d EXCEPT !.paras[Len(d.paras)] =
                     _add_floating_image(<<>>, PixmapBytes(ExactZoomDpi(dpi)), 0, 0,
                         _pt2emu(RectWidth(rect)), _pt2emu(RectHeight(rect)), sid)],
         counter |-> sid]

\* ------------------------------------------------------------- bounds

\* Pages of a PDF, length of an explicit page request, and primitives
\* (images, drawings, spans, form XObjects) the provider yields in one run.
MaxPages == 2
MaxReq == 2
MaxPrims == 2

\* Rectangles in a list handed to _merge_rects on its own.
MaxRects == 3

\* The largest flags value of a span: the five bits PyMuPDF sets.
MaxFlags == 31

\* Elements one of two concurrent runs emits.
MaxElems == 3

SeqsUpTo(S, n) == UNION {[1..k -> S] : k \in 0..n}

\* ------------------------------------------------- what the provider yields

\* page.rect: the first page is portrait, the others landscape.
PageRectOf(idx) ==
    IF idx = 0 THEN Rect(0, 0, Pt(400), Pt(500)) ELSE Rect(0, 0, Pt(500), Pt(400))

BigRect == Rect(Pt(90), Pt(90), Pt(310), Pt(310))

\* An image over most of the page; one whose bytes add_picture cannot read;
\* one placed a unit wide; one placed with no width; one extract_image
\* gives no bytes for.
ImageKinds ==
    { [xref |-> 1, rects |-> <<BigRect>>, extract_ok |-> TRUE, loadable |-> TRUE],
      [xref |-> 2, rects |-> <<BigRect>>, extract_ok |-> TRUE, loadable |-> FALSE],
      [xref |-> 3, rects |-> <<Rect(Pt(20), Pt(20), Pt(20) + 1, Pt(120))>>,
       extract_ok |-> TRUE, loadable |-> TRUE],
      [xref |-> 4, rects |-> <<Rect(Pt(20), Pt(20), Pt(20), Pt(120))>>,
       extract_ok |-> TRUE, loadable |-> TRUE],
      [xref |-> 5, rects |-> <<BigRect>>, extract_ok |-> FALSE, loadable |-> TRUE] }

ReItem(r) == [kind |-> "re", r |-> r]
LineItem(x0, y0, x1, y1) ==
    [kind |-> "l", p1 |-> [x |-> x0, y |-> y0], p2 |-> [x |-> x1, y |-> y1]]
CurveItem == [kind |-> "c"]

\* A small rectangle with a horizontal line; a filled frame with a rectangle
\* less than an EMU wide and a line inside it; a curve with its bounding
\* rectangle; a curve whose drawing reports no rectangle, with a rectangle
\* beside it.
DrawingKinds ==
    { [items |-> <<ReItem(Rect(Pt(150), Pt(150), Pt(160), Pt(160))),
                   LineItem(Pt(10), Pt(10), Pt(50), Pt(10))>>,
       rect |-> Rect(Pt(10), Pt(10), Pt(160), Pt(160)), fill |-> FALSE, width |-> Pt(1)],
      [items |-> <<ReItem(Rect(Pt(100), Pt(100), Pt(300), Pt(300))),
                   ReItem(Rect(Pt(120), Pt(120), Pt(120) + 1, Pt(140))),
                   LineItem(Pt(150), Pt(200), Pt(250), Pt(200))>>,
       rect |-> Rect(Pt(100), Pt(100), Pt(300), Pt(300)), fill |-> TRUE, width |-> 0],
      [items |-> <<CurveItem>>,
       rect |-> Rect(Pt(200), Pt(200), Pt(260), Pt(260)), fill |-> FALSE, width |-> Pt(1)],
      [items |-> <<CurveItem, ReItem(Rect(Pt(30), Pt(30), Pt(40), Pt(40)))>>,
       rect |-> Rect(0, 0, 0, 0), fill |-> FALSE, width |-> 1] }

Arial == <<"A", "r", "i", "a", "l">>
SubsetCourier == <<"A", "B", "C", "D", "E", "F", "+", "C", "o", "u", "r", "i", "e", "r">>

\* "Hi" in Arial; a span of one space; "W" and a control character; "iW" in
\* a subset of Courier.
SpanKinds ==
    { [text |-> <<"H", "i">>, bbox |-> Rect(Pt(50), Pt(50), Pt(62), Pt(62)),
       font |-> Arial, size |-> Pt(12)],
      [text |-> <<" ">>, bbox |-> Rect(Pt(62), Pt(50), Pt(65), Pt(62)),
       font |-> Arial, size |-> Pt(12)],
      [text |-> <<"W", "\\x01">>, bbox |-> Rect(Pt(65), Pt(50), Pt(80), Pt(62)),
       font |-> Arial, size |-> Pt(12)],
      [text |-> <<"i", "W">>, bbox |-> Rect(Pt(80), Pt(50), Pt(90), Pt(60)),
       font |-> SubsetCourier, size |-> Pt(10)] }

\* The spans as one text block of one line.
BlocksOf(spans) ==
    IF spans = <<>> THEN <<>>
    ELSE <<[type |-> 0, bbox |-> Rect(Pt(50), Pt(50), Pt(90), Pt(62)), lines |-> <<spans>>]>>

\* A form XObject under the frame of DrawingKinds.
XObjectKinds == { <<Rect(Pt(200), Pt(300), Pt(280), Pt(380))>> }

\* The characters the provider reports for a page: those of its spans.
RECURSIVE SumLen(_)
SumLen(spans) == IF spans = <<>> THEN 0 ELSE Len(Head(spans).text) + SumLen(Tail(spans))

CharCount(blocks) ==
    LET tb == SelectSeq(blocks, LAMBDA b : b.type = 0)
    IN  SumLen(Flatten(Flatten([k \in 1..Len(tb) |-> tb[k].lines])))

\* -------------------------------------------------------------- state

VARIABLES
    _SHAPE_ID_COUNTER,  \* the module's global
    pc,                 \* where convert_pdf_to_docx stands
    mode,               \* its mode argument
    pdf_len,            \* len(pdf_doc)
    page_indices,       \* the page indices of the run
    i,                  \* pages of page_indices already processed
    word_doc,           \* the document being built
    page,               \* the page in hand: what of it is still to be read
    saved,              \* the file word_doc.save wrote in this run
    log,                \* per processed page: its index, its processor, its characters
    budget,             \* primitives the provider may still yield in this run
    dpi,                \* the dpi argument of convert_pdf_to_docx
    fn_pc,              \* a helper applied on its own: where the application stands,
    fn_arg,             \*   its argument,
    fn_ret,             \*   and what it returned
    threads             \* callers of convert_pdf_to_docx running at the same time

prog_vars == <<_SHAPE_ID_COUNTER, pc, mode, pdf_len, page_indices, i, word_doc,
               page, saved, log, budget, dpi>>

fn_vars == <<fn_pc, fn_arg, fn_ret>>

\* What no step of one conversion call touches.
other_vars == <<fn_vars, threads>>

vars == <<prog_vars, fn_vars, threads>>

NoPage == [rect |-> Rect(0, 0, 0, 0), drawings |-> <<>>, blocks |-> <<>>]
\* saved is <<>> while the run has written no file, then <<the document>>.
NoFile == <<>>

\* dpi: int = 300
DefaultDpi == 300

\* The dpi values a caller passes: one between the two region ceilings, one
\* above every ceiling.
DpiValues == {225, 600}

\* No helper is being applied on its own.
FnIdle == fn_pc = "none" /\ fn_arg = <<>> /\ fn_ret = <<>>

ApiModes == {"exact", "editable"}
CliModes == {"image", "text", "hybrid"}

\* pages: None (given = FALSE), or a list of indices, any of which may be
\* past the last page.
Requests ==
    {[given |-> FALSE, list |-> <<>>]}
        \cup {[given |-> TRUE, list |-> l] : l \in SeqsUpTo(0..MaxPages, MaxReq)}

\* The module imported, no conversion called yet.
ProgInit ==
    /\ _SHAPE_ID_COUNTER = 0
    /\ pc = "idle"
    /\ mode = "editable"
    /\ pdf_len = 1
    /\ page_indices = <<>>
    /\ i = 0
    /\ word_doc = NewDocument
    /\ page = NoPage
    /\ saved = NoFile
    /\ log = <<>>
    /\ budget = MaxPrims
    /\ dpi = DefaultDpi

\* No caller on another thread.
NoThreads == threads = <<>>

Init == ProgInit /\ FnIdle /\ NoThreads

\* ------------------------------------------------- convert_pdf_to_docx

\* The call up to its page loop: the counter reset, the PDF opened, a new
\* Document, the page indices.
ConvertStart(m, pages, d, n) ==
    /\ pc = "idle"
    /\ dpi' = d
    /\ _SHAPE_ID_COUNTER' = 0
    /\ mode' = m
    /\ pdf_len' = n
    /\ page_indices' = IF pages.given THEN pages.list ELSE [k \in 1..n |-> k - 1]
    /\ i' = 0
    /\ word_doc' = NewDocument
    /\ page' = NoPage
    /\ saved' = NoFile
    /\ log' = <<>>
    /\ budget' = MaxPrims
    /\ pc' = "loop"
    /\ UNCHANGED other_vars

\* A caller of the library.
ApiConvert ==
    \E m \in ApiModes, pages \in Requests, d \in DpiValues, n \in 1..MaxPages :
        ConvertStart(m, pages, d, n)

\* cli.main: args.mode, one of the parser's choices ("image" when not
\* given), and args.dpi are handed to convert_pdf_to_docx as they are.
CliMain ==
    \E m \in CliModes, pages \in Requests, d \in DpiValues, n \in 1..MaxPages :
        ConvertStart(m, pages, d, n)

AtPage == pc = "loop" /\ i < Len(page_indices)

\* Variant: the loop runs over sorted(page_indices).
CurrentIdx_Sorted == SortSeq(page_indices, LAMBDA a, b : a < b)[i + 1]

\* "for i, idx in enumerate(page_indices)": the index the loop is at.
CurrentIdx == page_indices[i + 1]

\* Variant: only the first page of an exact run is rendered whole.
ExactBranch_FirstPageOnly == mode = "exact" /\ i = 0

\* "if mode == "exact"", else the editable processor.
ExactBranch == mode = "exact"

\* pdf_doc[idx] for an index the document does not have.
PageIndexError ==
    /\ AtPage
    /\ CurrentIdx >= pdf_len
    /\ pc' = "raised"
    /\ UNCHANGED <<_SHAPE_ID_COUNTER, mode, pdf_len, page_indices, i, word_doc,
                   page, saved, log, budget,
                   dpi, other_vars>>

ProcessPageExact ==
    /\ AtPage
    /\ CurrentIdx < pdf_len
    /\ ExactBranch
    /\ LET r == _process_page_exact(word_doc, PageRectOf(CurrentIdx),
                                     i = 0, dpi, _SHAPE_ID_COUNTER)
       IN  /\ word_doc' = r.doc
           /\ _SHAPE_ID_COUNTER' = r.counter
    /\ i' = i + 1
    /\ log' = Append(log, [idx |-> CurrentIdx, by |-> "exact", chars |-> 0])
    /\ UNCHANGED <<pc, mode, pdf_len, page_indices, page, saved, budget, dpi, other_vars>>

\* _process_page_editable to its step 1: the section and the anchor paragraph.
BeginPageEditable ==
    /\ AtPage
    /\ CurrentIdx < pdf_len
    /\ ~ExactBranch
    /\ word_doc' = SetupSection(word_doc, PageRectOf(CurrentIdx), i = 0)
    /\ page' = [NoPage EXCEPT !.rect = PageRectOf(CurrentIdx)]
    /\ pc' = "images"
    /\ UNCHANGED <<_SHAPE_ID_COUNTER, mode, pdf_len, page_indices, i, saved, log,
                   budget, dpi, other_vars>>

AnchorPara == word_doc.paras[Len(word_doc.paras)]

WithAnchorPara(para) == [word_doc EXCEPT !.paras[Len(word_doc.paras)] = para]

\* Step 1: the images placed, the figure regions detected and rendered.
\* The page's content is drawn here, where it is first read.
StepImages ==
    /\ pc = "images"
    /\ \E image_list \in SeqsUpTo(ImageKinds, budget) :
       \E drawings \in SeqsUpTo(DrawingKinds, budget - Len(image_list)) :
       \E spans \in SeqsUpTo(SpanKinds, budget - Len(image_list) - Len(drawings)) :
       \E xobjects \in SeqsUpTo(XObjectKinds,
              Min2(1, budget - Len(image_list) - Len(drawings) - Len(spans))) :
          LET pg  == [rect |-> page.rect, drawings |-> drawings,
                      blocks |-> BlocksOf(spans), xobjects |-> xobjects]
              st1 == PlaceImages(image_list, 1, {},
                        [para |-> AnchorPara, counter |-> _SHAPE_ID_COUNTER,
                         image_rects |-> <<>>])
              st2 == RasterizeRegions(_detect_figure_regions(pg, st1.image_rects),
                                      FigureZoomDpi(dpi), TRUE, st1)
          IN  /\ word_doc' = WithAnchorPara(st2.para)
              /\ _SHAPE_ID_COUNTER' = st2.counter
              /\ page' = [rect |-> page.rect, drawings |-> drawings,
                          blocks |-> BlocksOf(spans)]
              /\ budget' = budget - Len(image_list) - Len(drawings) - Len(spans)
                                  - Len(xobjects)
    /\ pc' = "drawings"
    /\ UNCHANGED <<mode, pdf_len, page_indices, i, saved, log, dpi, other_vars>>

\* Step 2: the drawings placed, the complex regions merged and rendered.
StepDrawings ==
    /\ pc = "drawings"
    /\ LET d  == PlaceDrawings(page.drawings, <<>>,
                    [para |-> AnchorPara, counter |-> _SHAPE_ID_COUNTER,
                     image_rects |-> <<>>])
           st == RasterizeRegions(ComplexToRasterize(d.complex_regions),
                                  ComplexZoomDpi(dpi), FALSE, d.st)
       IN  /\ word_doc' = WithAnchorPara(st.para)
           /\ _SHAPE_ID_COUNTER' = st.counter
    /\ page' = [page EXCEPT !.drawings = <<>>]
    /\ pc' = "text"
    /\ UNCHANGED <<mode, pdf_len, page_indices, i, saved, log, budget, dpi, other_vars>>

\* Step 3: the text placed.  An exception of _add_textbox leaves the page
\* loop and convert_pdf_to_docx.
StepText ==
    /\ pc = "text"
    /\ LET r == PlaceSpans(_group_spans_by_line(page.blocks),
                    [para |-> AnchorPara, counter |-> _SHAPE_ID_COUNTER,
                     image_rects |-> <<>>])
       IN  /\ word_doc' = WithAnchorPara(r.st.para)
           /\ _SHAPE_ID_COUNTER' = r.st.counter
           /\ IF r.raised
              THEN pc' = "raised" /\ UNCHANGED <<i, log>>
              ELSE /\ pc' = "loop"
                   /\ i' = i + 1
                   /\ log' = Append(log, [idx |-> CurrentIdx, by |-> "editable",
                                          chars |-> CharCount(page.blocks)])
    /\ page' = NoPage
    /\ UNCHANGED <<mode, pdf_len, page_indices, saved, budget, dpi, other_vars>>

\* Variant: the document is saved and the call returns with pages left.
Save_Early ==
    /\ pc = "loop"
    /\ saved' = <<word_doc>>
    /\ pc' = "done"
    /\ UNCHANGED <<_SHAPE_ID_COUNTER, mode, pdf_len, page_indices, i, word_doc,
                   page, log, budget,
                   dpi, other_vars>>

\* word_doc.save(docx_path), after the loop.
Save ==
    /\ pc = "loop"
    /\ i = Len(page_indices)
    /\ saved' = <<word_doc>>
    /\ pc' = "done"
    /\ UNCHANGED <<_SHAPE_ID_COUNTER, mode, pdf_len, page_indices, i, word_doc,
                   page, log, budget,
                   dpi, other_vars>>

\* The call is over, by return or by exception: its locals are gone, the
\* module's counter stays as the run left it.
Return ==
    /\ pc \in {"done", "raised"}
    /\ pc' = "idle"
    /\ mode' = "editable"
    /\ pdf_len' = 1
    /\ page_indices' = <<>>
    /\ i' = 0
    /\ word_doc' = NewDocument
    /\ page' = NoPage
    /\ saved' = NoFile
    /\ log' = <<>>
    /\ budget' = MaxPrims
    /\ dpi' = DefaultDpi
    /\ UNCHANGED <<_SHAPE_ID_COUNTER, other_vars>>

Next ==
    \/ ApiConvert
    \/ CliMain
    \/ PageIndexError
    \/ ProcessPageExact
    \/ BeginPageEditable
    \/ StepImages
    \/ StepDrawings
    \/ StepText
    \/ Save
    \/ Return

Spec == Init /\ [][Next]_vars

\* ------------------------------------------------ _merge_rects on its own
\* _merge_rects applied to a list of rectangles, then to its own result.

\* A small square; a horizontal bar and a vertical bar whose bounding union
\* holds the square, neither of them near it; a square 8 pt right of the
\* first; a rectangle with no area.
MergePalette ==
    { Rect(Pt(20), Pt(50), Pt(30), Pt(60)),
      Rect(Pt(0), Pt(0), Pt(100), Pt(10)),
      Rect(Pt(90), Pt(0), Pt(100), Pt(100)),
      Rect(Pt(38), Pt(50), Pt(48), Pt(60)),
      Rect(Pt(200), Pt(200), Pt(200), Pt(200)) }

\* margin: none, the default, and the one _detect_figure_regions passes.
MergeMargins == {0, Pt(MergeMarginDefault), Pt(FigureMergeMargin)}

MergeInit ==
    /\ ProgInit
    /\ fn_pc = "merge"
    /\ fn_arg \in [rects : SeqsUpTo(MergePalette, MaxRects), margin : MergeMargins]
    /\ fn_ret = <<>>
    /\ NoThreads

\* merged = _merge_rects(rects, margin)
CallMerge ==
    /\ fn_pc = "merge"
    /\ fn_ret' = _merge_rects(fn_arg.rects, fn_arg.margin)
    /\ fn_pc' = "merged"
    /\ UNCHANGED <<fn_arg, prog_vars, threads>>

\* _merge_rects(merged, margin): the result handed back as the argument.
CallMergeAgain ==
    /\ fn_pc = "merged"
    /\ fn_arg' = [rects |-> fn_ret, margin |-> fn_arg.margin]
    /\ fn_ret' = _merge_rects(fn_ret, fn_arg.margin)
    /\ fn_pc' = "remerged"
    /\ UNCHANGED <<prog_vars, threads>>

MergeNext ==
    \/ CallMerge
    \/ CallMergeAgain

SpecMerge == MergeInit /\ [][MergeNext]_vars

\* -------------------------------------------- one span of step 3 on its own
\* The flags, the font name and the box of one span, as step 3 computes them.

SubsetHelv == <<"A", "B", "C", "D", "E", "F", "+", "H", "e", "l", "v">>

\* A name with no "+"; two with a subset prefix; one whose "+" follows two
\* lower-case letters; a subset prefix before a name that has a "+" itself.
FontPalette ==
    { Arial, SubsetHelv, SubsetCourier,
      <<"a", "b", "+", "X">>,
      <<"A", "B", "C", "D", "E", "F", "+", "C", "+", "D">> }

\* bbox[2] - bbox[0]: wider than any estimate, narrower, under an EMU, none,
\* and a bbox given right to left.
WidthPalette == {Pt(30), Pt(5), 1, 0, 0 - Pt(3)}

SpanPalette ==
    [text  : {<<"H", "i">>, <<"i", "W">>, <<" ">>},
     bbox  : {Rect(Pt(50), Pt(50), Pt(50) + w, Pt(62)) : w \in WidthPalette},
     font  : FontPalette,
     size  : {Pt(10), Pt(12)},
     flags : 0..MaxFlags]

SpanInit ==
    /\ ProgInit
    /\ fn_pc = "span"
    /\ fn_arg \in SpanPalette
    /\ fn_ret = <<>>
    /\ NoThreads

\* "if not text.strip(): continue"
SkipBlankSpan ==
    /\ fn_pc = "span"
    /\ IsBlank(fn_arg.text)
    /\ fn_pc' = "skipped"
    /\ UNCHANGED <<fn_arg, fn_ret, prog_vars, threads>>

\* The body of the span loop up to the call of _add_textbox.
StyleSpan ==
    /\ fn_pc = "span"
    /\ ~IsBlank(fn_arg.text)
    /\ fn_ret' = SpanStyle(fn_arg)
    /\ fn_pc' = "styled"
    /\ UNCHANGED <<fn_arg, prog_vars, threads>>

SpanNext ==
    \/ SkipBlankSpan
    \/ StyleSpan

SpecSpan == SpanInit /\ [][SpanNext]_vars

\* ------------------------------------- two conversions at the same time
\* Two threads of one process each call convert_pdf_to_docx.  A call is its
\* reset of _SHAPE_ID_COUNTER, then one _next_shape_id() per element it
\* emits into its own document, then the save.  The threads share the
\* module's global and nothing guards it; a step is the reset or one whole
\* _next_shape_id (its increment and its return together).

Threads == {1, 2}

ThreadsInit ==
    /\ ProgInit
    /\ FnIdle
    /\ threads \in [Threads -> [pc : {"called"}, ids : {<<>>}, left : 0..MaxElems]]

\* global _SHAPE_ID_COUNTER; _SHAPE_ID_COUNTER = 0
ThreadReset(t) ==
    /\ threads[t].pc = "called"
    /\ _SHAPE_ID_COUNTER' = 0
    /\ threads' = [threads EXCEPT ![t].pc = "pages"]
    /\ UNCHANGED <<pc, mode, pdf_len, page_indices, i, word_doc, page, saved, log,
                   budget, dpi, fn_vars>>

\* shape_id=_next_shape_id() for the next element of the thread's document.
ThreadNextShapeId(t) ==
    /\ threads[t].pc = "pages"
    /\ threads[t].left > 0
    /\ _SHAPE_ID_COUNTER' = _next_shape_id(_SHAPE_ID_COUNTER)
    /\ threads' = [threads EXCEPT ![t].ids = Append(@, _next_shape_id(_SHAPE_ID_COUNTER)),
                                  ![t].left = @ - 1]
    /\ UNCHANGED <<pc, mode, pdf_len, page_indices, i, word_doc, page, saved, log,
                   budget, dpi, fn_vars>>

\* word_doc.save(docx_path) of the thread's call.
ThreadSave(t) ==
    /\ threads[t].pc = "pages"
    /\ threads[t].left = 0
    /\ threads' = [threads EXCEPT ![t].pc = "saved"]
    /\ UNCHANGED <<prog_vars, fn_vars>>

ThreadsNext ==
    \E t \in Threads :
        \/ ThreadReset(t)
        \/ ThreadNextShapeId(t)
        \/ ThreadSave(t)

SpecThreads == ThreadsInit /\ [][ThreadsNext]_vars

\* --------------------------------------------------------- properties

Finished == pc = "done"

\* The document of the file the run wrote.
Output == saved[1]

Elements(doc) == Flatten(doc.paras)

RECURSIVE SumChars(_)
SumChars(elems) ==
    IF elems = <<>> THEN 0 ELSE Head(elems).nchars + SumChars(Tail(elems))

RECURSIVE SumSourceChars(_)
SumSourceChars(entries) ==
    IF entries = <<>> THEN 0 ELSE Head(entries).chars + SumSourceChars(Tail(entries))

\* coverage_ratio < 0.95: the characters of the text elements against the
\* characters the provider reports for the processed pages (1.0 when it
\* reports none).
LowCoverage ==
    /\ SumSourceChars(log) > 0
    /\ 100 * SumChars(Elements(Output)) < 95 * SumSourceChars(log)

IsFullPageImage(e, section) ==
    /\ e.kind = "image"
    /\ e.x = 0 /\ e.y = 0
    /\ e.w = section.page_width /\ e.h = section.page_height

\* Every page of doc is one full-page image and nothing else.
AllRasterized(doc) ==
    \A k \in 1..Len(doc.paras) :
        /\ Len(doc.paras[k]) = 1
        /\ IsFullPageImage(doc.paras[k][1], doc.sections[k])

\* C1: an editable run whose text elements hold fewer than 95% of the
\* characters the provider reports ends with every requested page as one
\* full-page rasterized image and no text element.
FidelityGateRejects ==
    (Finished /\ mode = "editable" /\ LowCoverage)
        => (AllRasterized(Output) /\ Len(Output.paras) = Len(page_indices))

ShapeIdsIncreasing ==
    LET es == Elements(word_doc)
    IN  \A a, b \in 1..Len(es) : a < b => es[a].sid < es[b].sid

ShapeIdsIncreasingWitness ==
    LET es == Elements(word_doc)
    IN  /\ Finished
        /\ Len(word_doc.paras) = 2
        /\ Len(word_doc.paras[1]) > 0 /\ Len(word_doc.paras[2]) > 0
        /\ \E a \in 1..(Len(es) - 1) : es[a + 1].sid > es[a].sid + 1

\* C4: no primitive that fails to convert aborts the page: the only way a
\* run ends by exception is a requested page the provider does not have.
BadPrimitiveNeverAborts ==
    pc = "raised" => (i < Len(page_indices) /\ CurrentIdx >= pdf_len)

\* C5: a file is written only by a run that processed every requested page;
\* a run that raised wrote none.
SavedOnlyWhenComplete ==
    /\ saved # NoFile =>
          /\ Finished
          /\ i = Len(page_indices)
          /\ Len(log) = Len(page_indices)
          /\ Len(Output.paras) = Len(page_indices)
    /\ pc = "raised" => saved = NoFile

SavedOnlyWhenCompleteWitness ==
    /\ pc = "raised"
    /\ i = 1
    /\ Len(word_doc.paras[1]) > 0
    /\ saved = NoFile

\* C6, as stated: the pages of a finished conversion are in increasing order
\* of source page index, whatever the order of the request.
PagesInIncreasingIndexOrder ==
    Finished => \A a, b \in 1..Len(log) : a < b => log[a].idx <= log[b].idx

\* C6, amended: the pages are appended in the order of the request: the
\* k-th page processed is the k-th requested index.
PagesInRequestOrder ==
    /\ Len(log) <= Len(page_indices)
    /\ \A k \in 1..Len(log) : log[k].idx = page_indices[k]
    /\ Finished => Len(log) = Len(page_indices)

PagesInRequestOrderWitness ==
    /\ Finished
    /\ page_indices = <<1, 0>>
    /\ Len(log) = 2 /\ log[1].idx = 1 /\ log[2].idx = 0

\* C7, as stated: the finished document has as many sections as indices were
\* requested, the empty request included.
SectionPerRequestedPage ==
    Finished => Len(Output.sections) = Len(page_indices)

\* C7, amended: as many sections as requested indices for a non-empty
\* request; the one section of a new document for the empty request.
SectionPerRequestedPageOrOne ==
    Finished =>
        Len(Output.sections) = IF page_indices = <<>> THEN 1 ELSE Len(page_indices)

SectionPerRequestedPageWitness ==
    /\ Finished
    /\ Len(page_indices) = 2
    /\ Len(Output.sections) = 2
    /\ Output.sections[1] # Output.sections[2]

\* C8: a finished run of the command line in "image" mode holds, for every
\* requested page, one full-page image and nothing else.
CliImageModeRasterizes ==
    (Finished /\ mode = "image")
        => (AllRasterized(Output) /\ Len(Output.paras) = Len(page_indices))

\* C9: every element of the document has a positive width and a positive
\* height in EMU.
ElementsNonDegenerate ==
    \A k \in 1..Len(Elements(word_doc)) :
        Elements(word_doc)[k].w > 0 /\ Elements(word_doc)[k].h > 0

\* The band of an element: images and rasterized regions, shapes, text.
Band(e) == IF e.kind = "image" THEN 1 ELSE IF e.kind = "textbox" THEN 3 ELSE 2

\* C10, as stated: in every page's list the images and rasterized regions
\* come before the shapes, and the shapes before the text.
BandsInOrder ==
    \A k \in 1..Len(word_doc.paras) :
        LET es == word_doc.paras[k]
        IN  \A a, b \in 1..Len(es) : a < b => Band(es[a]) <= Band(es[b])

\* C10, amended: a page's list is images and figure regions, then shapes,
\* then rasterized complex regions, then text: nothing follows a text
\* element but text, and no shape follows an image that follows a shape.
BandsInStepOrder ==
    \A k \in 1..Len(word_doc.paras) :
        LET es == word_doc.paras[k]
        IN  /\ \A a, b \in 1..Len(es) : (a < b /\ Band(es[a]) = 3) => Band(es[b]) = 3
            /\ \A a, b, c \in 1..Len(es) :
                  (a < b /\ b < c /\ Band(es[a]) = 2 /\ Band(es[b]) = 1)
                      => Band(es[c]) # 2

BandsInStepOrderWitness ==
    \E k \in 1..Len(word_doc.paras) :
        LET es == word_doc.paras[k]
        IN  /\ Finished
            /\ \E a, b \in 1..Len(es) : a < b /\ Band(es[a]) = 2 /\ Band(es[b]) = 1

\* C11: within every page, each image or rasterized-region element has a
\* relativeHeight strictly lower than that of every text element of the page.
ImagesBehindText ==
    \A k \in 1..Len(word_doc.paras) :
        LET es == word_doc.paras[k]
        IN  \A a, b \in 1..Len(es) :
                (es[a].kind = "image" /\ es[b].kind = "textbox") => es[a].z < es[b].z

ImagesBehindTextWitness ==
    /\ Finished
    /\ \E k \in 1..Len(word_doc.paras) :
          LET es == word_doc.paras[k]
          IN  \E a, b \in 1..Len(es) :
                  /\ es[a].kind = "image" /\ es[a].rendered_dpi > 0
                  /\ es[b].kind = "textbox"

\* The elements get_pixmap rendered.
Rendered(doc) == SelectSeq(Elements(doc), LAMBDA e : e.kind = "image" /\ e.rendered_dpi > 0)

\* C12, as stated: no bitmap, of a figure region, of a complex region or of
\* a whole page, is rendered above 300 DPI, whatever dpi the caller passes.
RenderedAtMost300 ==
    \A k \in 1..Len(Rendered(word_doc)) : Rendered(word_doc)[k].rendered_dpi <= 300

\* C12, amended: a region of a reconstructed page is rendered at the dpi
\* asked for or at a ceiling of 250 (figure regions) or 200 (complex
\* regions), whichever is lower; a whole page of an exact run is rendered at
\* the dpi asked for, with no ceiling.
RegionsRenderedUnderCeiling ==
    \A k \in 1..Len(Rendered(word_doc)) :
        LET r == Rendered(word_doc)[k].rendered_dpi
        IN  IF mode = "exact" THEN r = dpi
            ELSE /\ r <= dpi /\ r <= 250
                 /\ (r = dpi \/ r = 250 \/ r = 200)
                 /\ (dpi > 250 => r \in {250, 200})

RegionsRenderedUnderCeilingWitness ==
    /\ Finished
    /\ dpi > 300
    /\ \E a, b \in 1..Len(Rendered(word_doc)) :
          /\ Rendered(word_doc)[a].rendered_dpi = 250
          /\ Rendered(word_doc)[b].rendered_dpi = 200

SetOf(s) == {s[k] : k \in 1..Len(s)}

\* C13: with the default margin, _merge_rects applied to its own output
\* returns the same set of regions, coordinates and count.
MergeIdempotent ==
    (fn_pc = "remerged" /\ fn_arg.margin = Pt(MergeMarginDefault))
        => (SetOf(fn_ret) = SetOf(fn_arg.rects) /\ Len(fn_ret) = Len(fn_arg.rects))

\* C14: no two regions _merge_rects returns intersect each other (stated for
\* the default margin).
MergedRegionsDisjoint ==
    (fn_pc = "merged" /\ fn_arg.margin = Pt(MergeMarginDefault)) =>
        \A a, b \in 1..Len(fn_ret) : a # b => ~RectIntersects(fn_ret[a], fn_ret[b])

\* C20: every rectangle handed to _merge_rects, expanded by the margin, lies
\* inside one of the regions returned, and no more regions are returned than
\* rectangles were handed in.
MergeLosesNoInput ==
    fn_pc \in {"merged", "remerged"} =>
        /\ Len(fn_ret) <= Len(fn_arg.rects)
        /\ \A k \in 1..Len(fn_arg.rects) :
              \E j \in 1..Len(fn_ret) :
                  LET r == fn_ret[j]
                      s == fn_arg.rects[k]
                  IN  /\ r.x0 <= s.x0 - fn_arg.margin /\ s.x1 + fn_arg.margin <= r.x1
                      /\ r.y0 <= s.y0 - fn_arg.margin /\ s.y1 + fn_arg.margin <= r.y1

MergeLosesNoInputWitness ==
    /\ fn_pc = "merged"
    /\ Len(fn_arg.rects) = 3
    /\ Len(fn_ret) = 2
    /\ \E j \in 1..Len(fn_ret) : \A k \in 1..Len(fn_arg.rects) :
          fn_ret[j] # ExpandRect(fn_arg.rects[k], fn_arg.margin)

\* The box of element s lies inside the box of element r.
BoxInside(s, r) ==
    /\ r.x <= s.x /\ s.x + s.w <= r.x + r.w
    /\ r.y <= s.y /\ s.y + s.h <= r.y + r.h

\* C15: on no page is a rectangle or line that lies inside a region the page
\* emits as a rasterized image also emitted as a native shape.
NoDuplicateRendering ==
    \A k \in 1..Len(word_doc.paras) :
        LET es == word_doc.paras[k]
        IN  \A a, b \in 1..Len(es) :
                (/\ es[a].kind = "image" /\ es[a].rendered_dpi > 0
                 /\ es[b].kind \in {"rect", "line"})
                    => ~BoxInside(es[b], es[a])

\* The rule of the classification as stated: a curve operator, or a fill
\* together with more than two path operators.
StatedComplex(drawing) ==
    \/ \E k \in 1..Len(drawing.items) : drawing.items[k].kind \in {"c", "qu", "curve"}
    \/ (drawing.fill /\ Len(drawing.items) > 2)

\* The elements step 2 appends to the anchor paragraph.
AppendedByStep == SubSeq(AnchorPara', Len(AnchorPara) + 1, Len(AnchorPara'))

\* C16: step 2, on a page with one drawing group, emits none of the group's
\* items as native shapes when the group holds a curve or has a fill and more
\* than two operators, and rasterizes nothing when it does not.
ClassificationAsStated ==
    [][(pc = "drawings" /\ pc' = "text" /\ Len(page.drawings) = 1) =>
          IF StatedComplex(page.drawings[1])
          THEN \A k \in 1..Len(AppendedByStep) :
                   AppendedByStep[k].kind \notin {"rect", "line"}
          ELSE \A k \in 1..Len(AppendedByStep) :
                   AppendedByStep[k].kind # "image"]_vars

IsUpperLetter(c) == \E k \in 1..Len(UpperLetters) : UpperLetters[k] = c

\* The name has a subset prefix: six upper-case letters and a "+".
HasSubsetPrefix(font) ==
    /\ Len(font) >= 7
    /\ \A k \in 1..6 : IsUpperLetter(font[k])
    /\ font[7] = "+"

\* C17, as stated: the cleaned name is the name less its subset prefix when
\* it has one, and the name itself otherwise.
FontCleanupStripsSubsetPrefixOnly ==
    fn_pc = "styled" =>
        fn_ret.clean_font = IF HasSubsetPrefix(fn_arg.font)
                            THEN SubSeq(fn_arg.font, 8, Len(fn_arg.font))
                            ELSE fn_arg.font

\* C17, amended: the cleaned name is what follows the first "+" of the name
\* when it has one, whatever precedes it, and the name itself otherwise.
FontCleanupCutsAtFirstPlus ==
    fn_pc = "styled" =>
        LET f == fn_arg.font
            c == fn_ret.clean_font
        IN  IF \A k \in 1..Len(f) : f[k] # "+" THEN c = f
            ELSE \E n \in 1..Len(f) :
                    /\ f[n] = "+"
                    /\ \A k \in 1..(n - 1) : f[k] # "+"
                    /\ c = SubSeq(f, n + 1, Len(f))

FontCleanupCutsAtFirstPlusWitness ==
    /\ fn_pc = "styled"
    /\ fn_arg.font = SubsetHelv
    /\ fn_ret.clean_font = <<"H", "e", "l", "v">>

\* C18: the box of an emitted span is at least as wide, in EMU, as the width
\* the PDF reports for the span.
BoxWidthCoversPdfWidth ==
    fn_pc = "styled" => fn_ret.box_w >= _pt2emu(fn_arg.bbox.x1 - fn_arg.bbox.x0)

BoxWidthCoversPdfWidthWitness ==
    /\ fn_pc = "styled"
    /\ fn_arg.bbox.x1 - fn_arg.bbox.x0 = Pt(30)
    /\ fn_ret.box_w = 33 * _PT_TO_EMU

\* Bit k of n.
RECURSIVE BitOf(_, _)
BitOf(n, k) == IF k = 0 THEN n % 2 = 1 ELSE BitOf(n \div 2, k - 1)

\* C19: superscript is decoded from bit 0 of the flags, italic from bit 1 and
\* bold from bit 4, each whatever the other bits are.
FlagsDecodedPerBit ==
    fn_pc = "styled" =>
        /\ fn_ret.is_superscript = BitOf(fn_arg.flags, 0)
        /\ fn_ret.is_italic = BitOf(fn_arg.flags, 1)
        /\ fn_ret.is_bold = BitOf(fn_arg.flags, 4)

FlagsDecodedPerBitWitness ==
    /\ fn_pc = "styled"
    /\ fn_arg.flags = 19
    /\ fn_ret.is_superscript /\ fn_ret.is_italic /\ fn_ret.is_bold

\* C21: when two conversions run at the same time, the shape ids within the
\* document of each are pairwise distinct.
ConcurrentIdsDistinct ==
    \A t \in DOMAIN threads :
        \A a, b \in 1..Len(threads[t].ids) :
            a # b => threads[t].ids[a] # threads[t].ids[b]

====
